---- MODULE Spec2Model ----
(***************************************************************************)
(* Weatherman: the rain / cold alert script (rain_alert.py).               *)
(*                                                                         *)
(* One run of the script is one invocation.  The script is sequential, so  *)
(* an invocation is a walk through its sections, GUARDS, FETCH WEATHER,    *)
(* RAIN ALERT, COLD ALERTS with "Update state"; pc names the section that *)
(* runs next.  An uncaught exception ends the invocation at the statement  *)
(* that raised it ("ABORTED"), sys.exit(1) ends it in the guards           *)
(* ("EXITED").  The state file on disk is what survives from one           *)
(* invocation to the next.                                                 *)
(*                                                                         *)
(* Temperatures of the weather document are floating point numbers; the    *)
(* model holds them as fixed point numbers, in units of 1/Scale degree.    *)
(* The fetched document is immutable, so the model draws each part of it   *)
(* at the statement that first reads that part.  The text of the           *)
(* notification message is not modelled, only its title and priority.      *)
(***************************************************************************)
EXTENDS Integers, Sequences, FiniteSets, TLC

\* ------------------------------------------------------------------ bounds
\* Readings are drawn from -BelowZero .. MaxTemp degrees, in steps of 1/Scale.
Scale == 2
MaxTemp == 16
BelowZero == 3
\* Hourly forecast lists have at most MaxHourly points.
MaxHourly == 3
\* The count of rain notifications of one rain episode saturates here.
MaxEpisodeSent == 2

\* --------------------------------------------------------------- constants
QUIET_START == 23
QUIET_END == 6

COLD_THRESHOLDS ==
    << [threshold |-> 15, title |-> "Cool Weather Alert",
        advice |-> "A light jacket may be useful."],
       [threshold |-> 10, title |-> "Cold Weather Alert",
        advice |-> "Dress warmly if heading out."],
       [threshold |-> 5, title |-> "Very Cold Alert",
        advice |-> "Cold conditions expected. Bundle up."],
       [threshold |-> 0, title |-> "Freezing Alert",
        advice |-> "Risk of frost or icy surfaces."] >>

RAIN_TITLE == "Rain Alert"

\* Python's None, and a value that is present: an optional is << >> or << v >>.
None == << >>
Some(v) == << v >>

\* --------------------------------------------------------------- variables
VARIABLES
    env,            \* which of the three credentials the environment of the
                    \* deployment holds
    pc,             \* the section of the script that runs next
    error,          \* how the invocation ended, once it has
    disk_exists,    \* os.path.exists(STATE_FILE)
    disk,           \* the record in STATE_FILE
    disk_text,      \* what STATE_FILE holds: the "whole" JSON document of
                    \* disk, or, once truncated, an "empty" file
    status,         \* HTTP status of the weather response
    hourly_key,     \* the "hourly" key of the response
    hourly,         \* data.get("hourly"), where the rain section is checked
                    \* on its own (SpecRain); None elsewhere
    current_key,    \* the "current" key of the response, and its fields
    feels_like,     \* data["current"]["feels_like"], in 1/Scale degree
    hour,           \* now.hour
    state,          \* the dict returned by load_state, as mutated since
    rain_soon,
    rain_time,
    current_feels,
    last_feels,
    alert_to_send,
    pushes,         \* the calls of send_push of this invocation, in order
    episode_sent,   \* rain notifications the push service took in the current
                    \* rain episode: the run of invocations, up to this one,
                    \* that each detected rain
    OPENAI_KEY,     \* weather_push.py: whether OPENAI_API_KEY is set
    facts,          \* weather_push.py: high, low and rain_pct of the facts
    ai,             \* weather_push.py: how the text-generation call went
    insight         \* weather_push.py: the tip ai_insight_or_rules returned

\* What only weather_push.py has.
daily_vars == << OPENAI_KEY, facts, ai, insight >>

\* What only rain_alert.py has.
alert_vars == << disk_exists, disk, disk_text, hourly, current_key, feels_like,
                 hour, state, rain_soon, rain_time, current_feels, last_feels,
                 alert_to_send, episode_sent >>

vars == << env, pc, error, status, hourly_key, pushes, alert_vars, daily_vars >>

\* rain_alert.py runs: nothing of weather_push.py exists.
daily_idle ==
    /\ OPENAI_KEY = FALSE
    /\ facts = [high |-> 0, low |-> 0, rain_pct |-> 0]
    /\ ai = [kind |-> "unset", status |-> 0]
    /\ insight = ""

\* ----------------------------------------------------------------- helpers
Min(a, b) == IF a < b THEN a ELSE b

RawTemps == (0 - BelowZero * Scale) .. (MaxTemp * Scale)

Hours == 0 .. 23

\* What requests.post does in send_push: it returns a response, whose status
\* is printed and not looked at, or it raises (connection error, timeout).
PushResults == {"returned", "raise"}

\* round(x) of Python 3 for x = raw / Scale: to the nearest integer, a tie to
\* the even neighbour.
round(raw) ==
    LET q == raw \div Scale
        r == raw % Scale
    IN  IF 2 * r < Scale THEN q
        ELSE IF 2 * r > Scale THEN q + 1
        ELSE IF q % 2 = 0 THEN q ELSE q + 1

\* The quiet window opening an hour late.
is_quiet_hours_late(h) == QUIET_START < h \/ h < QUIET_END

is_quiet_hours(h) == QUIET_START <= h \/ h < QUIET_END

\* A reading that sits on the threshold taken for one above it.
crossed_from_at(prev, curr, threshold) ==
    prev # None /\ prev[1] >= threshold /\ threshold >= curr

\* A missing previous reading taken for a warm one.
crossed_null_as_warm(prev, curr, threshold) ==
    (prev = None \/ prev[1] > threshold) /\ threshold >= curr

\* Level-triggered: the alert goes out whenever the reading is at or below.
crossed_level(prev, curr, threshold) ==
    prev # None /\ threshold >= curr

crossed(prev, curr, threshold) ==
    prev # None /\ prev[1] > threshold /\ threshold >= curr

\* sorted(COLD_THRESHOLDS, reverse=True): the tuples in descending order, which
\* their first component, the threshold, decides.
RECURSIVE sorted_reverse(_)
sorted_reverse(s) ==
    IF s = << >> THEN << >>
    ELSE LET i == CHOOSE i \in 1 .. Len(s) :
                     \A j \in 1 .. Len(s) : s[i].threshold >= s[j].threshold
             rest == [k \in 1 .. Len(s) - 1 |-> IF k < i THEN s[k] ELSE s[k + 1]]
         IN  << s[i] >> \o sorted_reverse(rest)

\* The selection loop: the first threshold, in the order of the list given,
\* that was crossed; None when there is none.
RECURSIVE first_crossed(_, _, _)
first_crossed(order, prev, curr) ==
    IF order = << >> THEN None
    ELSE IF crossed(prev, curr, order[1].threshold) THEN Some(order[1])
    ELSE first_crossed(Tail(order), prev, curr)

select_alert(prev, curr) ==
    first_crossed(sorted_reverse(COLD_THRESHOLDS), prev, curr)

\* Quiet hours suppression (except freezing).
not_suppressed(h, threshold) == ~(is_quiet_hours(h) /\ threshold > 0)

cold_priority(threshold) == IF threshold <= 0 THEN 2 ELSE 1

RAIN_PRIORITY == 1

\* A rain alert that is not latched: it goes out at every detection.
rain_notify_every_time(soon, alerted) == soon

\* The rising edge of the rain alert.
rain_notify(soon, alerted) == soon /\ ~alerted

default_state == [rain_alerted |-> FALSE, last_feels_like |-> None]

load_state == IF disk_exists THEN disk ELSE default_state

\* A POST that is made twice.
send_push_twice(title, priority, result) ==
    LET p == [title |-> title, priority |-> priority, result |-> result]
    IN  Append(Append(pushes, p), p)

\* send_push: one POST to the push service.
send_push(title, priority, result) ==
    Append(pushes, [title |-> title, priority |-> priority, result |-> result])

\* ------------------------------------------------------------ rain lookahead
LOOKAHEAD == 2

\* weather[].main values the provider may send, and str.lower() on them.
lower(m) == IF m = "Rain" THEN "rain" ELSE m

\* An hourly point: its timestamp, whether it has a "rain" key, and its
\* "weather" list (absent reads as the empty list).
PointKinds ==
    { [rain |-> FALSE, weather |-> << >>],
      [rain |-> FALSE, weather |-> << "Clouds" >>],
      [rain |-> FALSE, weather |-> << "Rain" >>],
      [rain |-> TRUE, weather |-> << >>] }

point_is_rain(h) ==
    h.rain \/ \E i \in 1 .. Len(h.weather) : lower(h.weather[i]) = "rain"

\* The points of an hourly list of n points are one hour apart: dt is the
\* position of the point.
HourlyLists(n) ==
    {[i \in 1 .. n |-> [dt |-> i, rain |-> f[i].rain, weather |-> f[i].weather]] :
        f \in [1 .. n -> PointKinds]}

AllHourlyLists == UNION {HourlyLists(n) : n \in 0 .. MaxHourly}

\* A lookahead over the whole forecast.
window_whole(points) == points

window(points) == SubSeq(points, 1, Min(LOOKAHEAD, Len(points)))

\* The scan of the loop over data.get("hourly", [])[:2]: the timestamp of the
\* first rain point of the window, None when there is none.
RECURSIVE first_rain(_)
first_rain(w) ==
    IF w = << >> THEN None
    ELSE IF point_is_rain(w[1]) THEN Some(w[1].dt)
    ELSE first_rain(Tail(w))

\* ---------------------------------------------------------------- the script
\* The environment: for each credential, whether os.getenv gives a non-empty
\* string.  It is the configuration of the deployment, the same at every run.
full_env == [OPENWEATHER_API_KEY |-> TRUE, PUSHOVER_TOKEN |-> TRUE,
             PUSHOVER_USER |-> TRUE]

Envs == [OPENWEATHER_API_KEY : BOOLEAN, PUSHOVER_TOKEN : BOOLEAN,
         PUSHOVER_USER : BOOLEAN]

\* A guard that forgets the push user.
guards_pass_without_user(e) == e.OPENWEATHER_API_KEY /\ e.PUSHOVER_TOKEN

\* not (not OW_KEY or not PUSH_TOKEN or not PUSH_USER)
guards_pass(e) == e.OPENWEATHER_API_KEY /\ e.PUSHOVER_TOKEN /\ e.PUSHOVER_USER

Finished == {"DONE", "ABORTED", "EXITED"}

Init ==
    /\ env \in Envs
    /\ pc = "GUARDS"
    /\ error = ""
    /\ disk_exists = FALSE
    /\ disk = default_state
    /\ disk_text = "whole"
    /\ status = 200
    /\ hourly_key = "unread"
    /\ hourly = None
    /\ current_key = "unread"
    /\ feels_like = 0
    /\ hour = 0
    /\ state = default_state
    /\ rain_soon = FALSE
    /\ rain_time = None
    /\ current_feels = 0
    /\ last_feels = None
    /\ alert_to_send = None
    /\ pushes = << >>
    /\ episode_sent = 0
    /\ daily_idle

\* A fresh process: no variable of the previous invocation survives.
fresh_locals ==
    /\ error' = ""
    /\ status' = 200
    /\ hourly_key' = "unread"
    /\ current_key' = "unread"
    /\ feels_like' = 0
    /\ hour' = 0
    /\ state' = default_state
    /\ rain_soon' = FALSE
    /\ rain_time' = None
    /\ current_feels' = 0
    /\ last_feels' = None
    /\ alert_to_send' = None
    /\ pushes' = << >>

\* GUARDS: the scheduler starts the script; it exits with status 1 when one of
\* the three credentials is missing.
Guards ==
    /\ pc \in Finished \cup {"GUARDS"}
    /\ fresh_locals
    /\ UNCHANGED << disk_exists, disk, disk_text, hourly >>
    /\ UNCHANGED << env, daily_vars >>
    /\ IF guards_pass(env)
       THEN /\ pc' = "FETCH"
            /\ UNCHANGED episode_sent
       ELSE /\ pc' = "EXITED"
            /\ episode_sent' = 0

\* FETCH WEATHER: requests.get(url).json(), now.hour and load_state().  The
\* status of the response is not looked at; a response with an error status
\* carries an error document, without "hourly" and "current".
FetchWeather ==
    /\ pc = "FETCH"
    /\ UNCHANGED daily_vars
    /\ UNCHANGED << env, hourly, disk_text, disk_exists, disk, hourly_key, current_key, feels_like,
                    rain_soon, rain_time, current_feels, last_feels,
                    alert_to_send, pushes >>
    /\ \/ /\ pc' = "ABORTED"
          /\ error' = "fetch"
          /\ episode_sent' = 0
          /\ UNCHANGED << status, hour, state >>
       \/ /\ \E s \in {200, 401} : status' = s
          /\ \E h \in Hours : hour' = h
          /\ state' = load_state
          /\ pc' = "RAIN"
          /\ UNCHANGED << error, episode_sent >>

\* What the response may hold under "hourly": nothing (None), or a list.
HourlyResponses ==
    IF status = 200 THEN {None} \cup {Some(l) : l \in AllHourlyLists} ELSE {None}

\* RAIN ALERT, for a given "hourly" of the response: the lookahead, the
\* notification on the rising edge, the reset.
RainAlertOn(list) ==
    /\ UNCHANGED daily_vars
    /\ UNCHANGED << env, disk_exists, disk, disk_text, status, current_key, feels_like, hour,
                    current_feels, last_feels, alert_to_send >>
    /\ LET points == IF list = None THEN << >> ELSE list[1]
           found == first_rain(window(points))
           soon == found # None
       IN  /\ hourly_key' = IF list = None THEN "absent" ELSE "present"
           /\ rain_soon' = soon
           /\ rain_time' = found
           /\ IF rain_notify(soon, state.rain_alerted)
              THEN \E result \in PushResults :
                       /\ pushes' = send_push(RAIN_TITLE, RAIN_PRIORITY, result)
                       /\ IF result = "raise"
                          THEN /\ pc' = "ABORTED"
                               /\ error' = "push"
                               /\ UNCHANGED << state, episode_sent >>
                          ELSE /\ pc' = "COLD"
                               /\ state' = [state EXCEPT !.rain_alerted = TRUE]
                               /\ episode_sent' = Min(episode_sent + 1, MaxEpisodeSent)
                               /\ UNCHANGED error
              ELSE /\ pc' = "COLD"
                   /\ state' = [state EXCEPT
                                  !.rain_alerted = IF soon THEN @ ELSE FALSE]
                   /\ episode_sent' = IF soon THEN episode_sent ELSE 0
                   /\ UNCHANGED << pushes, error >>

RainAlert ==
    /\ pc = "RAIN"
    /\ UNCHANGED hourly
    /\ \E list \in HourlyResponses : RainAlertOn(list)

\* What data["current"] may be when a field the script reads is missing:
\* absent, without "temp", without "feels_like".
MissingKeys == {"absent", "no_temp", "no_feels_like"}

\* A run that forgets to record its reading.
updated_state_dropped(st, curr) == st

\* An update that rebuilds the record and loses the rain flag.
updated_state_clears_rain(st, curr) ==
    [rain_alerted |-> FALSE, last_feels_like |-> Some(curr)]

\* Update state: state["last_feels_like"] = current_feels.
updated_state(st, curr) == [st EXCEPT !.last_feels_like = Some(curr)]

\* save_state(state) in a run that is not interrupted: the record replaces
\* the content of STATE_FILE.
save_state(st) ==
    /\ disk_exists' = TRUE
    /\ disk' = st
    /\ disk_text' = "whole"

\* COLD ALERTS and "Update state": the readings, the selection loop, the send,
\* then the save that ends the run.
ColdAlerts ==
    /\ pc = "COLD"
    /\ UNCHANGED daily_vars
    /\ UNCHANGED << env, hourly, status, hourly_key, hour, rain_soon, rain_time, episode_sent >>
    /\ \/ /\ \E key \in (IF status = 200 THEN MissingKeys ELSE {"absent"}) :
                current_key' = key
          /\ pc' = "ABORTED"
          /\ error' = "KeyError"
          /\ UNCHANGED << disk_exists, disk, disk_text, state, feels_like,
                          current_feels, last_feels, alert_to_send, pushes >>
       \/ /\ status = 200
          /\ current_key' = "present"
          /\ \E raw \in RawTemps :
              LET curr == round(raw)
                  prev == state.last_feels_like
                  alert == select_alert(prev, curr)
                  send == alert # None /\ not_suppressed(hour, alert[1].threshold)
                  finish == /\ state' = updated_state(state, curr)
                            /\ save_state(state')
                            /\ pc' = "DONE"
                            /\ UNCHANGED error
              IN  /\ feels_like' = raw
                  /\ current_feels' = curr
                  /\ last_feels' = prev
                  /\ alert_to_send' = alert
                  /\ IF send
                     THEN \E result \in PushResults :
                            /\ pushes' = send_push(alert[1].title,
                                            cold_priority(alert[1].threshold), result)
                            /\ IF result = "raise"
                               THEN /\ pc' = "ABORTED"
                                    /\ error' = "push"
                                    /\ UNCHANGED << disk_exists, disk, disk_text, state >>
                               ELSE finish
                     ELSE /\ UNCHANGED pushes
                          /\ finish

Next == Guards \/ FetchWeather \/ RainAlert \/ ColdAlerts

Spec == Init /\ [][Next]_vars

\* ------------------------------------------------ the rain section on its own
\* The records load_state can return: the default, or what a completed run
\* saved.
Readings == {round(raw) : raw \in RawTemps}

SavedStates ==
    [rain_alerted : BOOLEAN, last_feels_like : {Some(t) : t \in Readings}]

\* The script at the start of its rain section, the response just fetched and
\* the state just loaded.
InitRain ==
    /\ env = full_env
    /\ pc = "RAIN"
    /\ error = ""
    /\ \/ disk_exists = FALSE /\ disk = default_state
       \/ disk_exists = TRUE /\ disk \in SavedStates
    /\ disk_text = "whole"
    /\ status = 200
    /\ hourly_key = "unread"
    /\ hourly = None
    /\ current_key = "unread"
    /\ feels_like = 0
    /\ hour = 0
    /\ state = load_state
    /\ rain_soon = FALSE
    /\ rain_time = None
    /\ current_feels = 0
    /\ last_feels = None
    /\ alert_to_send = None
    /\ pushes = << >>
    /\ episode_sent = 0
    /\ daily_idle

\* The rain section, the "hourly" it read kept for inspection.
RainAlertKept ==
    /\ pc = "RAIN"
    /\ \E list \in HourlyResponses : RainAlertOn(list) /\ hourly' = list

NextRain == RainAlertKept

SpecRain == InitRain /\ [][NextRain]_vars

\* ------------------------------------------------ "Update state", by statement
\* The invocation at line 142, about to call save_state(state): STATE_FILE
\* holds what load_state read, state is that record with this run's reading
\* stored in it.
InitSave ==
    /\ env = full_env
    /\ pc = "SAVE"
    /\ error = ""
    /\ \/ disk_exists = FALSE /\ disk = default_state
       \/ disk_exists = TRUE /\ disk \in SavedStates
    /\ disk_text = "whole"
    /\ status = 200
    /\ hourly_key = "present"
    /\ hourly = None
    /\ current_key = "present"
    /\ feels_like = 0
    /\ hour = 0
    /\ \E soon \in BOOLEAN, curr \in Readings :
           /\ rain_soon = soon
           /\ current_feels = curr
           /\ state = updated_state([load_state EXCEPT !.rain_alerted = soon], curr)
    /\ rain_time = None
    /\ last_feels = load_state.last_feels_like
    /\ alert_to_send = None
    /\ pushes = << >>
    /\ episode_sent = 0
    /\ daily_idle

\* open(STATE_FILE, "w"): the file is created or truncated in place.
SaveOpen ==
    /\ pc = "SAVE"
    /\ UNCHANGED daily_vars
    /\ disk_exists' = TRUE
    /\ disk_text' = "empty"
    /\ pc' = "DUMP"
    /\ UNCHANGED << env, error, disk, status, hourly_key, hourly, current_key,
                    feels_like, hour, state, rain_soon, rain_time,
                    current_feels, last_feels, alert_to_send, pushes,
                    episode_sent >>

\* json.dump(state, f) and the close of the with block: the document is
\* buffered and reaches the file when it is closed.
SaveDump ==
    /\ pc = "DUMP"
    /\ UNCHANGED daily_vars
    /\ disk' = state
    /\ disk_text' = "whole"
    /\ pc' = "DONE"
    /\ UNCHANGED << env, error, disk_exists, status, hourly_key, hourly,
                    current_key, feels_like, hour, state, rain_soon, rain_time,
                    current_feels, last_feels, alert_to_send, pushes,
                    episode_sent >>

\* The process is killed before or inside save_state.
Kill ==
    /\ pc \in {"SAVE", "DUMP"}
    /\ UNCHANGED daily_vars
    /\ pc' = "KILLED"
    /\ UNCHANGED << env, error, disk_exists, disk, disk_text, status,
                    hourly_key, hourly, current_key, feels_like, hour, state,
                    rain_soon, rain_time, current_feels, last_feels,
                    alert_to_send, pushes, episode_sent >>

\* load_state() of the next invocation: json.load of an empty file raises
\* JSONDecodeError, which nothing catches.
Reload ==
    /\ pc \in {"KILLED", "DONE"}
    /\ UNCHANGED daily_vars
    /\ IF disk_exists /\ disk_text = "empty"
          THEN /\ pc' = "ABORTED"
               /\ error' = "load"
               /\ UNCHANGED state
          ELSE /\ pc' = "RAIN"
               /\ state' = load_state
               /\ UNCHANGED error
    /\ UNCHANGED << env, disk_exists, disk, disk_text, status, hourly_key,
                    hourly, current_key, feels_like, hour, rain_soon,
                    rain_time, current_feels, last_feels, alert_to_send,
                    pushes, episode_sent >>

NextSave == SaveOpen \/ SaveDump \/ Kill \/ Reload

SpecSave == InitSave /\ [][NextSave]_vars

\* ============================================ weather_push.py, daily summary
\* One run of the script: the guards, ow_onecall(), the facts of main(),
\* ai_insight_or_rules(facts), send_push.  The script keeps nothing between
\* runs.  A tip is a string; the dash of the rule tips is written "-".
RAIN_LIKELY == 60
RAIN_CHANCE == 30
BIG_SWING == 10
HOT_HIGH == 32
COLD_LOW == 5
MAX_TIP == 90
DAILY_TITLE == "Daily Weather"
DAILY_PRIORITY == 0

\* A rule table that looks at the heat before the swing.
rules_heat_first(f) ==
    LET swing == f.high - f.low
        rain == f.rain_pct
    IN  IF rain >= RAIN_LIKELY THEN "Rain likely today-keep an umbrella handy."
        ELSE IF rain >= RAIN_CHANCE THEN "Some chance of rain-good to be prepared."
        ELSE IF f.high >= HOT_HIGH THEN "Hot day-hydrate and avoid peak sun."
        ELSE IF swing >= BIG_SWING THEN "Big temperature swing-dress in layers."
        ELSE IF f.low <= COLD_LOW THEN "Cold periods-bundle up, especially at night."
        ELSE "Looks like a fairly typical day-stay comfortable."

\* rules(): the first rule that matches.
rules(f) ==
    LET swing == f.high - f.low
        rain == f.rain_pct
    IN  IF rain >= RAIN_LIKELY THEN "Rain likely today-keep an umbrella handy."
        ELSE IF rain >= RAIN_CHANCE THEN "Some chance of rain-good to be prepared."
        ELSE IF swing >= BIG_SWING THEN "Big temperature swing-dress in layers."
        ELSE IF f.high >= HOT_HIGH THEN "Hot day-hydrate and avoid peak sun."
        ELSE IF f.low <= COLD_LOW THEN "Cold periods-bundle up, especially at night."
        ELSE "Looks like a fairly typical day-stay comfortable."

\* The character of t at i, and what str.strip and str.split take as space.
at(t, i) == SubSeq(t, i, i)

is_space(c) == c \in {" ", "\n", "\t", "\r"}

RECURSIVE lstrip(_)
lstrip(t) ==
    IF Len(t) > 0 /\ is_space(at(t, 1)) THEN lstrip(SubSeq(t, 2, Len(t))) ELSE t

RECURSIVE rstrip(_)
rstrip(t) ==
    IF Len(t) > 0 /\ is_space(at(t, Len(t)))
    THEN rstrip(SubSeq(t, 1, Len(t) - 1)) ELSE t

\* text.strip()
strip(t) == rstrip(lstrip(t))

\* The index of the last character of the word that covers position i of t.
RECURSIVE word_end(_, _)
word_end(t, i) ==
    IF i < Len(t) /\ ~is_space(at(t, i + 1)) THEN word_end(t, i + 1) ELSE i

\* text.split(): the words between runs of space.
RECURSIVE split(_)
split(t) ==
    LET w == lstrip(t)
    IN  IF Len(w) = 0 THEN << >>
        ELSE LET n == word_end(w, 1)
             IN  << SubSeq(w, 1, n) >> \o split(SubSeq(w, n + 1, Len(w)))

\* " ".join(words)
RECURSIVE join(_)
join(words) ==
    IF words = << >> THEN ""
    ELSE IF Len(words) = 1 THEN words[1]
    ELSE words[1] \o " " \o join(Tail(words))

\* t[:90]
truncate(t) == SubSeq(t, 1, Min(Len(t), MAX_TIP))

\* How far around each limit of the rule table, and around MAX_TIP, the
\* inputs go.
Near == 1

Around(c) == (c - Near) .. (c + Near)

RECURSIVE repeat(_, _)
repeat(c, n) == IF n = 0 THEN "" ELSE c \o repeat(c, n - 1)

\* The texts the generation service may hand back in
\* choices[0].message.content: space or a line break in front, a word, a gap
\* with or without line breaks, a second word, space behind.
WordLens == {0, 1} \cup Around(MAX_TIP)

AiTexts ==
    {lead \o repeat("a", n) \o gap \o second \o trail :
        lead \in {"", "\n"}, n \in WordLens, gap \in {" ", "\n", " \r\n\t"},
        second \in {"", "b"}, trail \in {"", " \n"}}

\* What requests.post and r.json() give in ai_insight_or_rules: the post
\* raises; the body is not JSON; the JSON has no choices[0].message.content
\* string; or it has one.
AiReplies ==
    {[kind |-> "raise", status |-> 0, content |-> ""]}
    \cup [kind : {"not_json", "no_content"}, status : {200, 429}, content : {""}]
    \cup [kind : {"text"}, status : {429}, content : {"busy"}]
    \cup [kind : {"text"}, status : {200}, content : AiTexts]

\* A fallback that forgets to look at the status of the reply.
ai_insight_or_rules_any_status(f, key, reply) ==
    IF ~key THEN rules(f)
    ELSE IF reply.kind \in {"raise", "not_json", "no_content"} THEN rules(f)
    ELSE truncate(join(split(strip(reply.content))))

\* ai_insight_or_rules(facts), given what the call gives if it is made.
ai_insight_or_rules(f, key, reply) ==
    IF ~key THEN rules(f)
    ELSE IF reply.kind \in {"raise", "not_json"} THEN rules(f)
    ELSE IF reply.status # 200 THEN rules(f)
    ELSE IF reply.kind = "no_content" THEN rules(f)
    ELSE truncate(join(split(strip(reply.content))))

\* The extremes of the temperatures of the next 24 hours, in 1/Scale degree,
\* and 100 * max(pops), in 1/Scale percent.
DailyRaw ==
    {d * Scale + r : d \in UNION {Around(c) : c \in {COLD_LOW, COLD_LOW + BIG_SWING, HOT_HIGH}},
                     r \in 0 .. (Scale - 1)}

PopRaw ==
    {p * Scale + r : p \in {0, 100} \cup Around(RAIN_CHANCE) \cup Around(RAIN_LIKELY),
                     r \in 0 .. (Scale - 1)} \cap (0 .. 100 * Scale)

InitDaily ==
    /\ env \in Envs
    /\ pc = "D_GUARDS"
    /\ error = ""
    /\ disk_exists = FALSE
    /\ disk = default_state
    /\ disk_text = "whole"
    /\ status = 200
    /\ hourly_key = "unread"
    /\ hourly = None
    /\ current_key = "unread"
    /\ feels_like = 0
    /\ hour = 0
    /\ state = default_state
    /\ rain_soon = FALSE
    /\ rain_time = None
    /\ current_feels = 0
    /\ last_feels = None
    /\ alert_to_send = None
    /\ pushes = << >>
    /\ episode_sent = 0
    /\ OPENAI_KEY \in BOOLEAN
    /\ facts = [high |-> 0, low |-> 0, rain_pct |-> 0]
    /\ ai = [kind |-> "unset", status |-> 0]
    /\ insight = ""

\* The guard of weather_push.py: sys.exit(1) when a credential is missing.
DailyGuards ==
    /\ pc = "D_GUARDS"
    /\ pc' = IF guards_pass(env) THEN "D_FETCH" ELSE "D_EXITED"
    /\ UNCHANGED << env, error, status, hourly_key, pushes, alert_vars, daily_vars >>

\* ow_onecall(): requests.get or r.json() raises, or the status is not 200,
\* or the document has no "hourly": each ends the run.
ow_onecall ==
    /\ pc = "D_FETCH"
    /\ \/ /\ pc' = "D_ABORTED"
          /\ error' = "fetch"
          /\ UNCHANGED << status, hourly_key >>
       \/ \E s \in {200, 401}, k \in {"present", "absent"} :
            /\ status' = s
            /\ hourly_key' = IF s = 200 THEN k ELSE "unread"
            /\ IF s = 200 /\ k = "present"
               THEN pc' = "D_FACTS" /\ UNCHANGED error
               ELSE pc' = "D_ABORTED" /\ error' = "RuntimeError"
    /\ UNCHANGED << env, pushes, alert_vars, daily_vars >>

\* main() up to the facts: hourly[0] of an empty list, or round(None) where
\* no temperature is given, ends the run; otherwise high, low and rain_pct
\* are the rounded extremes.
DailyFacts ==
    /\ pc = "D_FACTS"
    /\ \/ /\ pc' = "D_ABORTED"
          /\ error' = "facts"
          /\ UNCHANGED facts
       \/ /\ \E hi \in DailyRaw, lo \in DailyRaw, pop \in PopRaw :
               /\ lo <= hi
               /\ facts' = [high |-> round(hi), low |-> round(lo),
                            rain_pct |-> round(pop)]
          /\ pc' = "D_TIP"
          /\ UNCHANGED error
    /\ UNCHANGED << env, status, hourly_key, pushes, alert_vars, OPENAI_KEY, ai,
                    insight >>

\* insight = ai_insight_or_rules(facts)
DailyTip ==
    /\ pc = "D_TIP"
    /\ IF OPENAI_KEY
       THEN \E reply \in AiReplies :
               /\ ai' = [kind |-> reply.kind, status |-> reply.status]
               /\ insight' = ai_insight_or_rules(facts, OPENAI_KEY, reply)
       ELSE /\ ai' = [kind |-> "no_key", status |-> 0]
            /\ insight' = ai_insight_or_rules(facts, OPENAI_KEY,
                              [kind |-> "raise", status |-> 0, content |-> ""])
    /\ pc' = "D_SEND"
    /\ UNCHANGED << env, error, status, hourly_key, pushes, alert_vars,
                    OPENAI_KEY, facts >>

\* send_push("Daily Weather", message, priority=0)
DailySend ==
    /\ pc = "D_SEND"
    /\ \E result \in PushResults :
          /\ pushes' = send_push(DAILY_TITLE, DAILY_PRIORITY, result)
          /\ IF result = "raise"
             THEN pc' = "D_ABORTED" /\ error' = "push"
             ELSE pc' = "D_DONE" /\ UNCHANGED error
    /\ UNCHANGED << env, status, hourly_key, alert_vars, daily_vars >>

NextDaily == DailyGuards \/ ow_onecall \/ DailyFacts \/ DailyTip \/ DailySend

SpecDaily == InitDaily /\ [][NextDaily]_vars

\* ------------------------------------------------------------ either script
\* A deployment runs the alert script or the daily summary.
InitBoth == Init \/ InitDaily

NextBoth == Next \/ NextDaily

SpecBoth == InitBoth /\ [][NextBoth]_vars

\* =================================================================== claims
\* The calls of send_push of this invocation that carry a cold alert.
ColdPushes == {i \in DOMAIN pushes : pushes[i].title # RAIN_TITLE}

RainPushes == {i \in DOMAIN pushes : pushes[i].title = RAIN_TITLE}

Thresholds == {COLD_THRESHOLDS[i].threshold : i \in DOMAIN COLD_THRESHOLDS}

ThresholdOf(title) ==
    LET i == CHOOSE i \in DOMAIN COLD_THRESHOLDS : COLD_THRESHOLDS[i].title = title
    IN  COLD_THRESHOLDS[i].threshold

\* The cold section has read both readings and run its selection loop.
ColdRan == current_key = "present"

\* The rain section ran to its end: send_push, if called, returned.
RainRan == pc = "COLD" \/ current_key # "unread"

\* The state file still holds what this invocation loaded.
NotSaved == pc # "DONE"

\* C1: when several thresholds satisfy prev > T >= curr at once, the alert
\* selected is the one of the lowest such threshold.
C1_MostSevereSelected ==
    ColdRan =>
        \A T \in Thresholds :
            (last_feels # None /\ last_feels[1] > T /\ T >= current_feels)
                => (alert_to_send # None /\ alert_to_send[1].threshold <= T)

\* C2: in an invocation, send_push is called for rain exactly once when rain
\* is detected and the loaded rain_alerted is false, and not at all otherwise;
\* once the rain section is through, rain_alerted is true when rain was
\* detected (set by the notification, or kept) and false when it was not.
C2_RainRisingEdge ==
    /\ (hourly_key # "unread" /\ NotSaved) =>
          Cardinality(RainPushes) =
              (IF rain_soon /\ ~load_state.rain_alerted THEN 1 ELSE 0)
    /\ RainRan => state.rain_alerted = rain_soon
    /\ hourly_key = "unread" => RainPushes = {}

C2_Witness ==
    /\ pc = "COLD"
    /\ rain_soon /\ ~load_state.rain_alerted
    /\ Cardinality(RainPushes) = 1
    /\ state.rain_alerted

\* C3: a cold alert for threshold T is sent only if the loaded last_feels_like
\* is not null and is above T, and the rounded current reading is at most T.
C3_CrossingRule ==
    \A i \in ColdPushes :
        LET T == ThresholdOf(pushes[i].title)
        IN  /\ ColdRan
            /\ last_feels # None
            /\ last_feels[1] > T
            /\ current_feels <= T
            /\ NotSaved => last_feels = load_state.last_feels_like

C3_Witness ==
    /\ pc = "DONE"
    /\ last_feels = Some(11) /\ current_feels = 10
    /\ \E i \in ColdPushes : ThresholdOf(pushes[i].title) = 10

\* C4: in the hours 23, 0, 1, 2, 3, 4, 5 a selected alert with a threshold
\* above 0 is not sent and one with a threshold of 0 or less is sent; in the
\* hours 6 .. 22 the selected alert is always sent.
C4_QuietHours ==
    (ColdRan /\ alert_to_send # None) =>
        LET T == alert_to_send[1].threshold
            sent == \E i \in ColdPushes : pushes[i].title = alert_to_send[1].title
        IN  /\ (hour \in {23, 0, 1, 2, 3, 4, 5} /\ T > 0) => ColdPushes = {}
            /\ (hour \in {23, 0, 1, 2, 3, 4, 5} /\ T <= 0) => sent
            /\ hour \in 6 .. 22 => sent

C4_Witness ==
    /\ pc = "DONE"
    /\ hour = 23
    /\ alert_to_send # None /\ alert_to_send[1].threshold = 5
    /\ ColdPushes = {}

\* C5: when the reading crosses 0 downward (prev > 0 >= curr), the Freezing
\* alert is the one selected, and it is sent whatever the hour.
C5_FreezingOverride ==
    (ColdRan /\ last_feels # None /\ last_feels[1] > 0 /\ 0 >= current_feels) =>
        /\ alert_to_send # None
        /\ alert_to_send[1].threshold = 0
        /\ \E i \in ColdPushes : pushes[i].title = "Freezing Alert"

\* C6: a cold notification with a threshold of 0 or less is sent with
\* priority 1 (high), one with a threshold above 0 with priority 0 (normal).
C6_PriorityMapping ==
    \A i \in ColdPushes :
        pushes[i].priority = (IF ThresholdOf(pushes[i].title) <= 0 THEN 1 ELSE 0)

\* C7: at most one rain notification is sent in a rain episode, whether the
\* invocations of the episode completed or aborted.
C7_OnePerEpisode == episode_sent <= 1

\* C8, as stated: after an invocation that completes, the persisted
\* last_feels_like equals the current feels-like reading.
C8_LastEqualsReading ==
    pc = "DONE" =>
        /\ disk_exists
        /\ disk.last_feels_like # None
        /\ disk.last_feels_like[1] * Scale = feels_like

\* C8, amended: after an invocation that completes, the persisted
\* last_feels_like is the current feels-like reading rounded to the nearest
\* integer (a tie going to the even one), whether or not an alert was sent.
Abs(x) == IF x < 0 THEN 0 - x ELSE x

C8_LastIsRoundedReading ==
    pc = "DONE" =>
        /\ disk_exists
        /\ disk.last_feels_like # None
        /\ LET n == disk.last_feels_like[1]
               d == Abs(feels_like - n * Scale)
           IN  /\ 2 * d <= Scale
               /\ 2 * d = Scale => n % 2 = 0
               /\ n = current_feels

C8_Witness ==
    /\ pc = "DONE"
    /\ last_feels = Some(6) /\ feels_like = 4 * Scale + 1 /\ hour = 2
    /\ alert_to_send # None /\ alert_to_send[1].threshold = 5
    /\ pushes = << >>
    /\ disk.last_feels_like = Some(4)

\* C9: when the response has an error status, or no hourly field, or its
\* current conditions lack temp or feels_like, the invocation sends nothing
\* and does not write the state file (only a run that reaches its end does).
FatalInput ==
    \/ status # 200
    \/ hourly_key = "absent"
    \/ current_key \in MissingKeys

C9_FatalBeforeAlerts == FatalInput => (pushes = << >> /\ pc # "DONE")

\* C10: a notification whose delivery fails does not make the invocation fail.
C10_DeliveryBestEffort ==
    (\E i \in DOMAIN pushes : pushes[i].result = "raise") => pc # "ABORTED"

\* C11: on a first invocation (no state file, or a null last_feels_like) no
\* cold alert is selected or sent, whatever the reading and the hour, and the
\* cold section runs to its end and records the reading.
C11_NoAlertOnFirstRun ==
    /\ (pc \in {"RAIN", "COLD"} /\ ~disk_exists) => state.last_feels_like = None
    /\ (ColdRan /\ last_feels = None) =>
          /\ alert_to_send = None
          /\ ColdPushes = {}
          /\ pc = "DONE"
          /\ disk_exists
          /\ disk.last_feels_like = Some(current_feels)

C11_Witness ==
    /\ pc = "DONE"
    /\ last_feels = None
    /\ current_feels = 0 - 1 /\ hour = 12
    /\ ColdPushes = {}
    /\ disk.last_feels_like = Some(0 - 1)

\* C12: an invocation selects at most one cold alert and calls send_push for a
\* cold alert at most once, and then for the alert selected, also when the
\* reading dropped through several thresholds.
C12_AtMostOneColdAlert ==
    /\ Len(alert_to_send) <= 1
    /\ Cardinality(ColdPushes) <= 1
    /\ \A i \in ColdPushes :
          alert_to_send # None /\ pushes[i].title = alert_to_send[1].title

C12_Witness ==
    /\ pc = "DONE"
    /\ last_feels = Some(16) /\ current_feels = 0 - 3 /\ hour = 12
    /\ Cardinality(ColdPushes) = 1

\* C13: the cold section selects threshold T (sent or suppressed) only when
\* the reading persisted by the last completed invocation is above T and its
\* own reading is at or below T, and a completed invocation persists its own
\* reading, suppressed or not.  So between two completed invocations that
\* select T lies one whose reading was above T, and T is not selected again
\* while the readings stay at or below it.
C13_EdgeTriggered ==
    [][(pc = "COLD" /\ current_key' = "present") =>
          LET prev == load_state.last_feels_like
          IN  /\ alert_to_send' # None =>
                    /\ prev # None
                    /\ prev[1] > alert_to_send'[1].threshold
                    /\ current_feels' <= alert_to_send'[1].threshold
              /\ (\A T \in Thresholds :
                    (prev # None /\ prev[1] <= T) =>
                        (alert_to_send' = None \/ alert_to_send'[1].threshold # T))
              /\ pc' = "DONE" => disk'.last_feels_like = Some(current_feels')]_vars

C13_Witness ==
    /\ pc = "DONE"
    /\ last_feels = Some(4) /\ current_feels = 4
    /\ alert_to_send = None
    /\ ColdPushes = {}

\* C18: after a completed invocation the persisted rain_alerted is true
\* exactly when that invocation detected rain; the cold section leaves the
\* flag as the rain section set it.
C18_RainStateInvariant ==
    pc = "DONE" =>
        /\ disk_exists
        /\ disk.rain_alerted = rain_soon
        /\ state.rain_alerted = rain_soon

C18_Witness ==
    /\ pc = "DONE"
    /\ rain_soon /\ disk.rain_alerted
    /\ RainPushes = {}
    /\ ColdPushes # {}

\* C19: rain detection looks at the first two hourly points only: rain_soon is
\* true exactly when one of them is a rain point, rain_time is then the
\* timestamp of the first of them that is, rain at a third or later point
\* alone sets nothing and sends nothing, and a missing or empty hourly list
\* gives rain_soon = false and lets the run go on.
C19_FixedLookahead ==
    hourly_key # "unread" =>
        LET points == IF hourly = None THEN << >> ELSE hourly[1]
            hits == {i \in DOMAIN points : i <= 2 /\ point_is_rain(points[i])}
            first == CHOOSE i \in hits : \A j \in hits : i <= j
        IN  /\ rain_soon = (hits # {})
            /\ hits # {} => rain_time = Some(points[first].dt)
            /\ hits = {} => (rain_time = None /\ RainPushes = {})
            /\ points = << >> => (~rain_soon /\ pc = "COLD" /\ error = "")

C19_Witness ==
    /\ pc = "COLD"
    /\ hourly # None /\ Len(hourly[1]) = 3
    /\ \A i \in 1 .. 2 : ~point_is_rain(hourly[1][i])
    /\ point_is_rain(hourly[1][3])
    /\ ~rain_soon /\ pushes = << >>

\* C14: atomic persistence.  Wherever the invocation is killed, STATE_FILE
\* holds a complete record: the one loaded at the start (or no file, as at
\* the start) or the updated one, never an empty or partial document.
C14_AtomicPersistence ==
    (pc = "KILLED" /\ disk_exists) => disk_text = "whole"

\* The tip came from the rule table: no call was made, or the call failed.
\* A reply without choices[0].message.content raises KeyError, IndexError or
\* AttributeError inside the try block.
TipReturned == ai.kind # "unset"

CallFailed ==
    \/ ai.kind \in {"no_key", "raise", "not_json", "no_content"}
    \/ (ai.kind = "text" /\ ai.status # 200)

single_line(t) == \A i \in 1 .. Len(t) : at(t, i) \notin {"\n", "\r"}

DailyPushes == {i \in DOMAIN pushes : pushes[i].title = DAILY_TITLE}

\* C16: daily tip fallback.  The tip ai_insight_or_rules returns is always a
\* single line of at most 90 characters; when no generation key is set, or
\* the generation call raises or answers with a status other than 200, the
\* tip is the rule-table tip of the same facts, and the daily summary is sent
\* all the same.
C16_TipFallback ==
    TipReturned =>
        /\ Len(insight) <= 90
        /\ single_line(insight)
        /\ CallFailed => insight = rules(facts)
        /\ (CallFailed /\ pc # "D_SEND") => Cardinality(DailyPushes) = 1

C16_Witness ==
    /\ pc = "D_DONE"
    /\ ai = [kind |-> "text", status |-> 429]
    /\ insight = rules(facts)
    /\ DailyPushes # {}

\* C17: rule-table priority.  The rule-based tip is that of the first rule
\* that matches, in the order rain_pct >= 60, rain_pct >= 30,
\* high - low >= 10, high >= 32, low <= 5, else the default tip.
C17_RulePriority ==
    (TipReturned /\ CallFailed) =>
        LET likely == facts.rain_pct >= 60
            chance == facts.rain_pct >= 30
            swing == facts.high - facts.low >= 10
            hot == facts.high >= 32
            cold == facts.low <= 5
        IN  /\ likely => insight = "Rain likely today-keep an umbrella handy."
            /\ (~likely /\ chance) =>
                   insight = "Some chance of rain-good to be prepared."
            /\ (~likely /\ ~chance /\ swing) =>
                   insight = "Big temperature swing-dress in layers."
            /\ (~likely /\ ~chance /\ ~swing /\ hot) =>
                   insight = "Hot day-hydrate and avoid peak sun."
            /\ (~likely /\ ~chance /\ ~swing /\ ~hot /\ cold) =>
                   insight = "Cold periods-bundle up, especially at night."
            /\ (~likely /\ ~chance /\ ~swing /\ ~hot /\ ~cold) =>
                   insight = "Looks like a fairly typical day-stay comfortable."

C17_Witness ==
    /\ TipReturned
    /\ CallFailed
    /\ facts.rain_pct < 30
    /\ facts.high - facts.low >= 10
    /\ facts.high >= 32
    /\ facts.low <= 5
    /\ insight = "Big temperature swing-dress in layers."

\* C15: missing credentials are fatal at startup.  When one of the weather
\* API key, the push token and the push user is absent, a run of either
\* script ends in sys.exit(1) having fetched nothing, sent nothing, and
\* neither read nor written the state file.
C15_MissingCredentialsFatal ==
    LET absent == \/ ~env.OPENWEATHER_API_KEY
                  \/ ~env.PUSHOVER_TOKEN
                  \/ ~env.PUSHOVER_USER
    IN  (absent /\ pc \notin {"GUARDS", "D_GUARDS"}) =>
            /\ pc \in {"EXITED", "D_EXITED"}
            /\ error = ""
            /\ hourly_key = "unread" /\ current_key = "unread"
            /\ pushes = << >>
            /\ ~disk_exists /\ state = default_state
            /\ ai.kind = "unset"

C15_Witness ==
    /\ pc = "D_EXITED"
    /\ env = [OPENWEATHER_API_KEY |-> TRUE, PUSHOVER_TOKEN |-> TRUE,
              PUSHOVER_USER |-> FALSE]
    /\ OPENAI_KEY
    /\ pushes = << >>

====
